---- MODULE Spec2Model ----
(***************************************************************************)
(* Banker's algorithm ledger of src/yinhangjia.py (class BankerSystem):    *)
(* need, safety_check, request and release, one action per call.           *)
(* Processes and resource classes are indexed from 0 as in the source;     *)
(* a vector is a function on 0..k-1, a matrix a function of row vectors.   *)
(***************************************************************************)
EXTENDS Integers, Sequences, FiniteSets, TLC

\* ---- bounds of the model -------------------------------------------------
\* number of processes of the generated ledgers
NumProcs == 2
\* largest entry of Max, Available and of a request/release vector in the
\* generated single-class ledgers
MaxUnits == 1

VARIABLES n, m, available, max_need, allocation,
          op, arg_pid, arg_vec, outcome, steps, safety_calls, safety_out,
          pre

\* the BankerSystem object
ledger == <<n, m, available, max_need, allocation>>
\* what the last call was, and what it returned
call == <<op, arg_pid, arg_vec, outcome, steps, safety_calls, safety_out>>
\* pre: Available and Allocation as they were when the last call was made
vars == <<n, m, available, max_need, allocation,
          op, arg_pid, arg_vec, outcome, steps, safety_calls, safety_out,
          pre>>

\* ---- vectors -------------------------------------------------------------
\* a Python list [t1, ..., tk] as a function on 0..k-1
Vec(t) == [j \in 0..(Len(t) - 1) |-> t[j + 1]]
\* len(v)
VLen(v) == Cardinality(DOMAIN v)
\* zip(a, b): the indices both lists have
Zip(a, b) == (DOMAIN a) \cap (DOMAIN b)

\* fault: any() for all()
vec_le_Any(a, b) == \E j \in Zip(a, b) : a[j] <= b[j]

vec_le(a, b) == \A j \in Zip(a, b) : a[j] <= b[j]
vec_add(a, b) == [j \in Zip(a, b) |-> a[j] + b[j]]
vec_sub(a, b) == [j \in Zip(a, b) |-> a[j] - b[j]]

\* ---- the object as a value -----------------------------------------------
BankerSystem(n_, m_, av, mx, al) ==
    [n |-> n_, m |-> m_, available |-> av, max_need |-> mx, allocation |-> al]

Self == BankerSystem(n, m, available, max_need, allocation)

\* fault: Allocation - Max
need_Reversed(self) ==
    [i \in 0..(self.n - 1) |->
        [j \in 0..(self.m - 1) |-> self.allocation[i][j] - self.max_need[i][j]]]

need(self) ==
    [i \in 0..(self.n - 1) |->
        [j \in 0..(self.m - 1) |-> self.max_need[i][j] - self.allocation[i][j]]]

\* ---- safety_check --------------------------------------------------------
\* fault: break out of the for loop after finishing a process, so that the
\* next pass starts again from index 0
RECURSIVE ScanFrom_Restart(_, _, _, _, _, _, _)
ScanFrom_Restart(self, nd, i, work, finish, seq, changed) ==
    IF i >= self.n
    THEN [work |-> work, finish |-> finish, seq |-> seq, changed |-> changed]
    ELSE IF (~finish[i]) /\ vec_le(nd[i], work)
         THEN [work |-> vec_add(work, self.allocation[i]),
               finish |-> [finish EXCEPT ![i] = TRUE],
               seq |-> Append(seq, i), changed |-> TRUE]
         ELSE ScanFrom_Restart(self, nd, i + 1, work, finish, seq, changed)

\* for i in range(n): one pass of the scan, from index i on, over the need
\* matrix nd computed on entry; the scan goes on to i+1 after finishing
\* process i
RECURSIVE ScanFrom(_, _, _, _, _, _, _)
ScanFrom(self, nd, i, work, finish, seq, changed) ==
    IF i >= self.n
    THEN [work |-> work, finish |-> finish, seq |-> seq, changed |-> changed]
    ELSE IF (~finish[i]) /\ vec_le(nd[i], work)
         THEN ScanFrom(self, nd, i + 1, vec_add(work, self.allocation[i]),
                       [finish EXCEPT ![i] = TRUE], Append(seq, i), TRUE)
         ELSE ScanFrom(self, nd, i + 1, work, finish, seq, changed)

\* fault: a single pass, no while loop
WhileChanged_OnePass(self, nd, work, finish, seq, passes) ==
    LET r == ScanFrom(self, nd, 0, work, finish, seq, FALSE)
    IN  [work |-> r.work, finish |-> r.finish, seq |-> r.seq, passes |-> passes + 1]

\* fault: the loop stops as soon as every process is finished, without the
\* last pass that finishes none
RECURSIVE WhileChanged_NoLastPass(_, _, _, _, _, _)
WhileChanged_NoLastPass(self, nd, work, finish, seq, passes) ==
    LET r == ScanFrom(self, nd, 0, work, finish, seq, FALSE)
    IN  IF r.changed /\ \E i \in 0..(self.n - 1) : ~r.finish[i]
        THEN WhileChanged_NoLastPass(self, nd, r.work, r.finish, r.seq, passes + 1)
        ELSE [work |-> r.work, finish |-> r.finish, seq |-> r.seq,
              passes |-> passes + 1]

\* while changed: ... ; passes counts the executions of the while body
RECURSIVE WhileChanged(_, _, _, _, _, _)
WhileChanged(self, nd, work, finish, seq, passes) ==
    LET r == ScanFrom(self, nd, 0, work, finish, seq, FALSE)
    IN  IF r.changed
        THEN WhileChanged(self, nd, r.work, r.finish, r.seq, passes + 1)
        ELSE [work |-> r.work, finish |-> r.finish, seq |-> r.seq,
              passes |-> passes + 1]

\* fault: any(finish) for all(finish)
safety_check_AnyFinished(self) ==
    LET r == WhileChanged(self, need(self), self.available,
                          [i \in 0..(self.n - 1) |-> FALSE], <<>>, 0)
    IN  [safe |-> \E i \in 0..(self.n - 1) : r.finish[i],
         seq |-> r.seq, passes |-> r.passes]

safety_check(self) ==
    LET r == WhileChanged(self, need(self), self.available,
                          [i \in 0..(self.n - 1) |-> FALSE], <<>>, 0)
    IN  [safe |-> \A i \in 0..(self.n - 1) : r.finish[i],
         seq |-> r.seq, passes |-> r.passes]

NoSafetyOut == [safe |-> FALSE, seq |-> <<>>, passes |-> 0]

\* ---- request -------------------------------------------------------------
\* the value request() computes: the outcome ("raise", "false", "true"), the
\* checks it evaluated in order, the number of safety_check calls it made and
\* the object's fields when it ends
Rejected(self, st, calls) ==
    [outcome |-> "false", steps |-> st, safety_calls |-> calls,
     available |-> self.available, allocation |-> self.allocation]

\* fault: return False for raise ValueError
Raised_AsFalse(self, st) ==
    [outcome |-> "false", steps |-> st, safety_calls |-> 0,
     available |-> self.available, allocation |-> self.allocation]

Raised(self, st) ==
    [outcome |-> "raise", steps |-> st, safety_calls |-> 0,
     available |-> self.available, allocation |-> self.allocation]

\* fault: the trial allocation is made on the object itself and not undone
TryAllocate_NoRollback(self, pid, req) ==
    LET avail2 == vec_sub(self.available, req)
        alloc2 == [self.allocation EXCEPT ![pid] = vec_add(self.allocation[pid], req)]
        tmp == BankerSystem(self.n, self.m, avail2, self.max_need, alloc2)
        st == <<"pid", "len", "need", "available", "safety">>
    IN  [outcome |-> IF safety_check(tmp).safe THEN "true" ELSE "false",
         steps |-> st, safety_calls |-> 1,
         available |-> avail2, allocation |-> alloc2]

\* fault: the result of the safety check is ignored
TryAllocate_NoSafety(self, pid, req) ==
    LET avail2 == vec_sub(self.available, req)
        alloc2 == [self.allocation EXCEPT ![pid] = vec_add(self.allocation[pid], req)]
    IN  [outcome |-> "true",
         steps |-> <<"pid", "len", "need", "available", "safety">>,
         safety_calls |-> 1, available |-> avail2, allocation |-> alloc2]

\* fault: the commit stores avail2 and forgets alloc2
TryAllocate_KeepsAllocation(self, pid, req) ==
    LET avail2 == vec_sub(self.available, req)
        alloc2 == [self.allocation EXCEPT ![pid] = vec_add(self.allocation[pid], req)]
        tmp == BankerSystem(self.n, self.m, avail2, self.max_need, alloc2)
        st == <<"pid", "len", "need", "available", "safety">>
    IN  IF safety_check(tmp).safe
        THEN [outcome |-> "true", steps |-> st, safety_calls |-> 1,
              available |-> avail2, allocation |-> self.allocation]
        ELSE Rejected(self, st, 1)

\* fault: the temporary object is built with the old Allocation
TryAllocate_StaleAllocation(self, pid, req) ==
    LET avail2 == vec_sub(self.available, req)
        alloc2 == [self.allocation EXCEPT ![pid] = vec_add(self.allocation[pid], req)]
        tmp == BankerSystem(self.n, self.m, avail2, self.max_need, self.allocation)
        st == <<"pid", "len", "need", "available", "safety">>
    IN  IF safety_check(tmp).safe
        THEN [outcome |-> "true", steps |-> st, safety_calls |-> 1,
              available |-> avail2, allocation |-> alloc2]
        ELSE Rejected(self, st, 1)

\* fault: the test of the safety check's verdict is inverted
TryAllocate_Inverted(self, pid, req) ==
    LET avail2 == vec_sub(self.available, req)
        alloc2 == [self.allocation EXCEPT ![pid] = vec_add(self.allocation[pid], req)]
        tmp == BankerSystem(self.n, self.m, avail2, self.max_need, alloc2)
        st == <<"pid", "len", "need", "available", "safety">>
    IN  IF ~safety_check(tmp).safe
        THEN [outcome |-> "true", steps |-> st, safety_calls |-> 1,
              available |-> avail2, allocation |-> alloc2]
        ELSE Rejected(self, st, 1)

\* lines 89-113: the trial allocation, the safety check on the temporary
\* object and the commit or the rollback
TryAllocate(self, pid, req) ==
    LET avail2 == vec_sub(self.available, req)
        alloc2 == [self.allocation EXCEPT ![pid] = vec_add(self.allocation[pid], req)]
        tmp == BankerSystem(self.n, self.m, avail2, self.max_need, alloc2)
        st == <<"pid", "len", "need", "available", "safety">>
    IN  IF safety_check(tmp).safe
        THEN [outcome |-> "true", steps |-> st, safety_calls |-> 1,
              available |-> avail2, allocation |-> alloc2]
        ELSE Rejected(self, st, 1)

\* fault: no Request <= Need check
request_NoNeedCheck(self, pid, req) ==
    IF pid < 0 \/ pid >= self.n
    THEN Raised(self, <<"pid">>)
    ELSE IF VLen(req) # self.m
    THEN Raised(self, <<"pid", "len">>)
    ELSE IF ~vec_le(req, self.available)
    THEN Rejected(self, <<"pid", "len", "available">>, 0)
    ELSE TryAllocate(self, pid, req)

\* fault: Request <= Available is checked before Request <= Need
request_AvailableFirst(self, pid, req) ==
    IF pid < 0 \/ pid >= self.n
    THEN Raised(self, <<"pid">>)
    ELSE IF VLen(req) # self.m
    THEN Raised(self, <<"pid", "len">>)
    ELSE IF ~vec_le(req, self.available)
    THEN Rejected(self, <<"pid", "len", "available">>, 0)
    ELSE IF ~vec_le(req, need(self)[pid])
    THEN Rejected(self, <<"pid", "len", "available", "need">>, 0)
    ELSE TryAllocate(self, pid, req)

\* lines 66-113
request(self, pid, req) ==
    IF pid < 0 \/ pid >= self.n
    THEN Raised(self, <<"pid">>)
    ELSE IF VLen(req) # self.m
    THEN Raised(self, <<"pid", "len">>)
    ELSE IF ~vec_le(req, need(self)[pid])
    THEN Rejected(self, <<"pid", "len", "need">>, 0)
    ELSE IF ~vec_le(req, self.available)
    THEN Rejected(self, <<"pid", "len", "need", "available">>, 0)
    ELSE TryAllocate(self, pid, req)

\* ---- release -------------------------------------------------------------
\* fault: the released units are not returned to Available
release_NoReturn(self, pid, rel) ==
    IF pid < 0 \/ pid >= self.n
    THEN Raised(self, <<"pid">>)
    ELSE IF VLen(rel) # self.m
    THEN Raised(self, <<"pid", "len">>)
    ELSE IF ~vec_le(rel, self.allocation[pid])
    THEN Rejected(self, <<"pid", "len", "allocation">>, 0)
    ELSE [outcome |-> "true", steps |-> <<"pid", "len", "allocation">>,
          safety_calls |-> 0,
          available |-> self.available,
          allocation |-> [self.allocation EXCEPT
                             ![pid] = vec_sub(self.allocation[pid], rel)]]

\* fault: no Release <= Allocation check
release_NoCheck(self, pid, rel) ==
    IF pid < 0 \/ pid >= self.n
    THEN Raised(self, <<"pid">>)
    ELSE IF VLen(rel) # self.m
    THEN Raised(self, <<"pid", "len">>)
    ELSE [outcome |-> "true", steps |-> <<"pid", "len">>,
          safety_calls |-> 0,
          available |-> vec_add(self.available, rel),
          allocation |-> [self.allocation EXCEPT
                             ![pid] = vec_sub(self.allocation[pid], rel)]]

\* fault: vec_sub for vec_add on Available
release_SubAvailable(self, pid, rel) ==
    IF pid < 0 \/ pid >= self.n
    THEN Raised(self, <<"pid">>)
    ELSE IF VLen(rel) # self.m
    THEN Raised(self, <<"pid", "len">>)
    ELSE IF ~vec_le(rel, self.allocation[pid])
    THEN Rejected(self, <<"pid", "len", "allocation">>, 0)
    ELSE [outcome |-> "true", steps |-> <<"pid", "len", "allocation">>,
          safety_calls |-> 0,
          available |-> vec_sub(self.available, rel),
          allocation |-> [self.allocation EXCEPT
                             ![pid] = vec_sub(self.allocation[pid], rel)]]

\* fault: the release is committed only when the state it leads to is safe
release_WithSafetyCheck(self, pid, rel) ==
    IF pid < 0 \/ pid >= self.n
    THEN Raised(self, <<"pid">>)
    ELSE IF VLen(rel) # self.m
    THEN Raised(self, <<"pid", "len">>)
    ELSE IF ~vec_le(rel, self.allocation[pid])
    THEN Rejected(self, <<"pid", "len", "allocation">>, 0)
    ELSE LET avail2 == vec_add(self.available, rel)
             alloc2 == [self.allocation EXCEPT
                           ![pid] = vec_sub(self.allocation[pid], rel)]
             tmp == BankerSystem(self.n, self.m, avail2, self.max_need, alloc2)
             st == <<"pid", "len", "allocation", "safety">>
         IN  IF safety_check(tmp).safe
             THEN [outcome |-> "true", steps |-> st, safety_calls |-> 1,
                   available |-> avail2, allocation |-> alloc2]
             ELSE Rejected(self, st, 1)

\* fault: the Allocation row is not reduced
release_KeepsAllocation(self, pid, rel) ==
    IF pid < 0 \/ pid >= self.n
    THEN Raised(self, <<"pid">>)
    ELSE IF VLen(rel) # self.m
    THEN Raised(self, <<"pid", "len">>)
    ELSE IF ~vec_le(rel, self.allocation[pid])
    THEN Rejected(self, <<"pid", "len", "allocation">>, 0)
    ELSE [outcome |-> "true", steps |-> <<"pid", "len", "allocation">>,
          safety_calls |-> 0,
          available |-> vec_add(self.available, rel),
          allocation |-> self.allocation]

\* lines 115-138
release(self, pid, rel) ==
    IF pid < 0 \/ pid >= self.n
    THEN Raised(self, <<"pid">>)
    ELSE IF VLen(rel) # self.m
    THEN Raised(self, <<"pid", "len">>)
    ELSE IF ~vec_le(rel, self.allocation[pid])
    THEN Rejected(self, <<"pid", "len", "allocation">>, 0)
    ELSE [outcome |-> "true", steps |-> <<"pid", "len", "allocation">>,
          safety_calls |-> 0,
          available |-> vec_add(self.available, rel),
          allocation |-> [self.allocation EXCEPT
                             ![pid] = vec_sub(self.allocation[pid], rel)]]

\* ---- the inputs ----------------------------------------------------------
\* the textbook state of five processes and three resource classes
ScenarioAvailable == Vec(<<3, 3, 2>>)
ScenarioMax ==
    Vec(<< Vec(<<7, 5, 3>>), Vec(<<3, 2, 2>>), Vec(<<9, 0, 2>>),
           Vec(<<2, 2, 2>>), Vec(<<4, 3, 3>>) >>)
ScenarioAllocation ==
    Vec(<< Vec(<<0, 1, 0>>), Vec(<<2, 0, 0>>), Vec(<<3, 0, 2>>),
           Vec(<<2, 1, 1>>), Vec(<<0, 0, 2>>) >>)
ScenarioA == BankerSystem(5, 3, ScenarioAvailable, ScenarioMax, ScenarioAllocation)

\* the same ledger with P0 holding [1,0,2] more, taken from Available: an
\* unsafe state that satisfies I1 and I2, which the constructor accepts
ScenarioUnsafe ==
    BankerSystem(5, 3, Vec(<<2, 3, 0>>), ScenarioMax,
                 [ScenarioAllocation EXCEPT ![0] = Vec(<<1, 1, 2>>)])

\* the request/release vectors tried on them
ScenarioVectors == { Vec(<<1, 0, 2>>), Vec(<<3, 3, 0>>), Vec(<<0, 2, 0>>) }

\* the vectors of one resource class
UnitVectors == { Vec(<<u>>) : u \in 0..MaxUnits }

\* the calls made on a ledger: a pid in range with a non-negative vector of
\* the ledger's length (main() refuses negative numbers), and the malformed
\* ones: a pid just outside the range, a vector of another length
InputVectors == UnitVectors \cup ScenarioVectors
ZeroVec(k) == [j \in 0..(k - 1) |-> 0]
NoVec == Vec(<<>>)
WellFormedCalls ==
    (0..(n - 1)) \X { v \in InputVectors : VLen(v) = m }
MalformedCalls ==
    { <<-1, ZeroVec(m)>>, <<n, ZeroVec(m)>>, <<0, NoVec>> }
InputCalls == WellFormedCalls \cup MalformedCalls

\* every ledger of NumProcs processes and one resource class, entries up to
\* MaxUnits, with 0 <= Allocation <= Max (I1) and Available >= 0 (I2); the
\* constructor checks nothing else, so unsafe ledgers are among them
GeneratedLedgers ==
    { L \in { BankerSystem(NumProcs, 1, av, mx, al) :
                av \in UnitVectors,
                mx \in [0..(NumProcs - 1) -> UnitVectors],
                al \in [0..(NumProcs - 1) -> UnitVectors] } :
        \A i \in 0..(NumProcs - 1) : vec_le(L.allocation[i], L.max_need[i]) }

\* ---- the state machine ---------------------------------------------------
\* after construction: BankerSystem(n, m, available, max_need, allocation)
Init ==
    /\ \E L \in GeneratedLedgers \cup {ScenarioA, ScenarioUnsafe} :
          /\ n = L.n
          /\ m = L.m
          /\ available = L.available
          /\ max_need = L.max_need
          /\ allocation = L.allocation
    /\ op = "init"
    /\ arg_pid = -1
    /\ arg_vec = NoVec
    /\ outcome = "none"
    /\ steps = <<>>
    /\ safety_calls = 0
    /\ safety_out = NoSafetyOut
    /\ pre = [available |-> available, allocation |-> allocation]

\* sys.need()
NeedCall ==
    /\ op' = "need"
    /\ arg_pid' = -1
    /\ arg_vec' = NoVec
    /\ outcome' = "matrix"
    /\ steps' = <<>>
    /\ safety_calls' = 0
    /\ safety_out' = NoSafetyOut
    /\ pre' = [available |-> available, allocation |-> allocation]
    /\ UNCHANGED ledger

\* fault: work aliases self.available and is updated in place
SafetyCheckCall_WritesWork ==
    /\ op' = "safety_check"
    /\ arg_pid' = -1
    /\ arg_vec' = NoVec
    /\ outcome' = "tuple"
    /\ steps' = <<>>
    /\ safety_calls' = 1
    /\ safety_out' = safety_check(Self)
    /\ available' = WhileChanged(Self, need(Self), available,
                                 [i \in 0..(n - 1) |-> FALSE], <<>>, 0).work
    /\ pre' = [available |-> available, allocation |-> allocation]
    /\ UNCHANGED <<n, m, max_need, allocation>>

\* sys.safety_check()
SafetyCheckCall ==
    /\ op' = "safety_check"
    /\ arg_pid' = -1
    /\ arg_vec' = NoVec
    /\ outcome' = "tuple"
    /\ steps' = <<>>
    /\ safety_calls' = 1
    /\ safety_out' = safety_check(Self)
    /\ pre' = [available |-> available, allocation |-> allocation]
    /\ UNCHANGED ledger

\* sys.request(pid, req)
RequestCall(pid, req) ==
    LET r == request(Self, pid, req)
    IN  /\ op' = "request"
        /\ arg_pid' = pid
        /\ arg_vec' = req
        /\ outcome' = r.outcome
        /\ steps' = r.steps
        /\ safety_calls' = r.safety_calls
        /\ safety_out' = NoSafetyOut
        /\ available' = r.available
        /\ allocation' = r.allocation
        /\ pre' = [available |-> available, allocation |-> allocation]
        /\ UNCHANGED <<n, m, max_need>>

\* sys.release(pid, rel)
ReleaseCall(pid, rel) ==
    LET r == release(Self, pid, rel)
    IN  /\ op' = "release"
        /\ arg_pid' = pid
        /\ arg_vec' = rel
        /\ outcome' = r.outcome
        /\ steps' = r.steps
        /\ safety_calls' = r.safety_calls
        /\ safety_out' = NoSafetyOut
        /\ available' = r.available
        /\ allocation' = r.allocation
        /\ pre' = [available |-> available, allocation |-> allocation]
        /\ UNCHANGED <<n, m, max_need>>

Next ==
    \/ NeedCall
    \/ SafetyCheckCall
    \/ \E c \in InputCalls : RequestCall(c[1], c[2])
    \/ \E c \in InputCalls : ReleaseCall(c[1], c[2])

Spec == Init /\ [][Next]_vars

\* ---- notions the properties are stated with ------------------------------
Procs == 0..(n - 1)
Classes == 0..(m - 1)

\* the last call was op, with a pid in range and a vector of length m
WellFormed(o) == op = o /\ arg_pid \in Procs /\ VLen(arg_vec) = m
Committed(o) == op = o /\ outcome = "true"
\* the same of the call a step makes
WellFormedNext(o) == op' = o /\ arg_pid' \in Procs /\ VLen(arg_vec') = m
CommittedNext(o) == op' = o /\ outcome' = "true"
NonZero(v) == \E j \in DOMAIN v : v[j] > 0
Last(s) == s[Len(s)]

\* Available plus the Allocation rows of the first k processes of order s
RECURSIVE WorkAfter(_, _, _)
WorkAfter(self, s, k) ==
    IF k = 0 THEN self.available
    ELSE vec_add(WorkAfter(self, s, k - 1), self.allocation[s[k]])

\* s is an order in which every listed process can run to completion: its
\* Need fits in Available plus the Allocation of the processes before it
ValidOrder(self, s) ==
    \A k \in 1..Len(s) : vec_le(need(self)[s[k]], WorkAfter(self, s, k - 1))

IsPermutation(s, k) ==
    /\ Len(s) = k
    /\ \A a \in 1..k : s[a] \in 0..(k - 1)
    /\ \A a, b \in 1..k : a # b => s[a] # s[b]

\* some order of the processes not in done completes them all from work
RECURSIVE CanComplete(_, _, _)
CanComplete(self, work, done) ==
    \/ done = 0..(self.n - 1)
    \/ \E i \in (0..(self.n - 1)) \ done :
          /\ vec_le(need(self)[i], work)
          /\ CanComplete(self, vec_add(work, self.allocation[i]), done \cup {i})

\* the definition of a safe state: a completion order of all processes exists
ExistsSafeOrder(self) == CanComplete(self, self.available, {})

\* the safety algorithm run on the current state finishes every process
SafeNow == safety_check(Self).safe
\* the same of the state a step leads to
SelfNext == BankerSystem(n', m', available', max_need', allocation')
SafeNext == safety_check(SelfNext).safe

\* the ledger a request(pid, req) is tried on
Speculative(self, pid, req) ==
    BankerSystem(self.n, self.m, vec_sub(self.available, req), self.max_need,
                 [self.allocation EXCEPT ![pid] = vec_add(self.allocation[pid], req)])

\* Available[j] plus the Allocation of class j over the first k processes
RECURSIVE Held(_, _, _)
Held(al, j, k) == IF k = 0 THEN 0 ELSE al[k - 1][j] + Held(al, j, k - 1)
Supply(av, al, j) == av[j] + Held(al, j, n)

\* ---- properties ----------------------------------------------------------

\* C1 (atomic rejection): a request call with a pid in range and a vector of
\* length m that returns false leaves Available and Allocation exactly as
\* they were before the call, whichever check refused it.
C1_AtomicRejection ==
    [][ (WellFormedNext("request") /\ outcome' = "false")
            => (available' = available /\ allocation' = allocation) ]_vars

\* a non-zero request that passed the need and availability checks was
\* refused by the safety check on the trial state
C1_Witness ==
    /\ WellFormed("request") /\ outcome = "false"
    /\ Last(steps) = "safety" /\ NonZero(arg_vec)

\* C2 as stated: after every request or release that commits, the state is
\* safe, whatever ledger (satisfying I1 and I2) the object was built from.
C2_Original ==
    (Committed("request") \/ Committed("release")) => SafeNow

\* C2 as amended: the state after a committed request is safe; the state
\* after a committed release is safe when the state before the release was.
C2_CommitSafe ==
    [][ /\ CommittedNext("request") => SafeNext
        /\ (CommittedNext("release") /\ SafeNow) => SafeNext ]_vars

\* a non-zero request was granted
C2_Witness ==
    Committed("request") /\ NonZero(arg_vec) /\ SafeNow

\* C3 (I1 and I2): after any sequence of request and release calls,
\* 0 <= Allocation[i][j] <= Max[i][j] and Available[j] >= 0.
C3_I1_I2 ==
    /\ \A i \in Procs, j \in Classes :
          0 <= allocation[i][j] /\ allocation[i][j] <= max_need[i][j]
    /\ \A j \in Classes : available[j] >= 0

\* a granted non-zero request took the process to its Max and Available to 0
\* in some class
C3_Witness ==
    /\ Committed("request") /\ NonZero(arg_vec)
    /\ \E j \in Classes :
          /\ arg_vec[j] > 0
          /\ allocation[arg_pid][j] = max_need[arg_pid][j]
          /\ available[j] = 0

\* C4 (conservation): for every class j, Available[j] plus the Allocation of
\* class j over all processes is the same before and after every call, so it
\* keeps its initial value.
C4_Conservation ==
    [][ \A j \in Classes :
            Supply(available', allocation', j) = Supply(available, allocation, j) ]_vars

\* a release moved units from a process back to Available
C4_Witness ==
    Committed("release") /\ NonZero(arg_vec)

\* C5 (safety check correctness): safety_check returns safe = true exactly
\* when some order of all processes lets each one complete from Available
\* plus the Allocation of those before it; when it does, the sequence it
\* returns is a permutation of 0..n-1 and such an order.
C5_SafetyCheckCorrect ==
    op = "safety_check" =>
        /\ safety_out.safe <=> ExistsSafeOrder(Self)
        /\ safety_out.safe =>
              /\ IsPermutation(safety_out.seq, n)
              /\ ValidOrder(Self, safety_out.seq)

\* the check found a state safe that needed more than one productive pass
C5_Witness ==
    op = "safety_check" /\ safety_out.safe /\ safety_out.passes >= 3

\* the processes safety_check could finish at step k of sequence s: those not
\* among the first k-1 whose Need fits in the work vector of that step
Eligible(self, s, k) ==
    { i \in 0..(self.n - 1) :
        /\ \A a \in 1..(k - 1) : s[a] # i
        /\ vec_le(need(self)[i], WorkAfter(self, s, k - 1)) }

Lowest(S) == CHOOSE i \in S : \A x \in S : i <= x

\* the first process of S met scanning upwards from index from and wrapping
\* round to 0 after n-1
FirstFrom(S, from) ==
    IF \E i \in S : i >= from
    THEN Lowest({ i \in S : i >= from })
    ELSE Lowest(S)

\* C6 as stated: every process of the returned sequence is the lowest-index
\* unfinished process whose Need fits in the work vector of its step (the
\* scan restarts from index 0 after each finished process).
C6_Original ==
    op = "safety_check" =>
        \A k \in 1..Len(safety_out.seq) :
            safety_out.seq[k] = Lowest(Eligible(Self, safety_out.seq, k))

\* C6 as amended: every process of the returned sequence is the first
\* unfinished process whose Need fits in the work vector of its step, met
\* scanning upwards from the index after the process finished just before
\* (from 0 at the first step) and wrapping round to index 0 after n-1: the
\* scan goes on from the next index and does not restart; the sequence ends
\* when no unfinished process fits.
C6_ScanContinues ==
    op = "safety_check" =>
        LET s == safety_out.seq
        IN  /\ \A k \in 1..Len(s) :
                  s[k] = FirstFrom(Eligible(Self, s, k),
                                   IF k = 1 THEN 0 ELSE s[k - 1] + 1)
            /\ Eligible(Self, s, Len(s) + 1) = {}

\* the check finished a process while a lower-index one was ready
C6_Witness ==
    /\ op = "safety_check"
    /\ \E k \in 1..Len(safety_out.seq) :
          \E i \in Eligible(Self, safety_out.seq, k) : i < safety_out.seq[k]

\* C7 (Scenario A): on the textbook state safety_check returns safe = true
\* and the sequence [1, 3, 4, 0, 2].
C7_ScenarioA ==
    (op = "safety_check" /\ Self = ScenarioA) =>
        (safety_out.safe /\ safety_out.seq = <<1, 3, 4, 0, 2>>)

\* the check ran on the textbook state
C7_Witness ==
    op = "safety_check" /\ Self = ScenarioA /\ Len(safety_out.seq) = 5

\* C8 (order of the checks of request): a well-formed request exceeding
\* Need[pid] in some class returns false at the need check, with no
\* availability check and no safety_check call, also when it fits in
\* Available; the availability check is made only after the need check
\* passed, the safety check only after both passed.
C8_CheckOrder ==
    [][ WellFormedNext("request") =>
          LET nd == need(Self)[arg_pid']
          IN  /\ ~vec_le(arg_vec', nd) =>
                    /\ outcome' = "false"
                    /\ Last(steps') = "need"
                    /\ \A k \in 1..Len(steps') :
                          steps'[k] \notin {"available", "safety"}
                    /\ safety_calls' = 0
              /\ (\E k \in 1..Len(steps') : steps'[k] = "available") =>
                    /\ vec_le(arg_vec', nd)
                    /\ \E a, b \in 1..Len(steps') :
                          a < b /\ steps'[a] = "need" /\ steps'[b] = "available"
              /\ (safety_calls' > 0 \/ \E k \in 1..Len(steps') : steps'[k] = "safety") =>
                    /\ vec_le(arg_vec', nd)
                    /\ vec_le(arg_vec', available)
                    /\ Last(steps') = "safety"
                    /\ \E a, b \in 1..Len(steps') :
                          a < b /\ steps'[a] = "available" /\ steps'[b] = "safety" ]_vars

\* a request within Available but beyond Need was refused at the need check
C8_Witness ==
    /\ WellFormed("request") /\ outcome = "false" /\ Last(steps) = "need"
    /\ ~vec_le(arg_vec, need(Self)[arg_pid])
    /\ vec_le(arg_vec, available)

\* C9 (no mutation on read): a call of safety_check or need leaves
\* Available, Allocation and Max unchanged, wherever it is made.
C9_ReadOnly ==
    [][ op' \in {"safety_check", "need"} =>
          /\ available' = available
          /\ allocation' = allocation
          /\ max_need' = max_need ]_vars

\* the check ran and its work vector grew beyond Available
C9_Witness ==
    /\ op = "safety_check"
    /\ Len(safety_out.seq) > 0
    /\ WorkAfter(Self, safety_out.seq, Len(safety_out.seq)) # available

\* C10 (granted request): a well-formed request within Need[pid] and within
\* Available whose trial state is safe returns true, and then Available is
\* reduced by req, Allocation[pid] increased by req, every other Allocation
\* row and Max unchanged; on the textbook state request(1, [1,0,2]) returns
\* true with Available = [2,3,0] and Allocation[1] = [3,0,2].
C10_GrantEffect ==
    [][ WellFormedNext("request") =>
          /\ ( /\ vec_le(arg_vec', need(Self)[arg_pid'])
               /\ vec_le(arg_vec', available)
               /\ ExistsSafeOrder(Speculative(Self, arg_pid', arg_vec')) )
             => /\ outcome' = "true"
                /\ available' = vec_sub(available, arg_vec')
                /\ allocation'[arg_pid'] = vec_add(allocation[arg_pid'], arg_vec')
                /\ \A i \in Procs \ {arg_pid'} : allocation'[i] = allocation[i]
                /\ DOMAIN allocation' = DOMAIN allocation
                /\ max_need' = max_need
          /\ (Self = ScenarioA /\ arg_pid' = 1 /\ arg_vec' = Vec(<<1, 0, 2>>))
             => /\ outcome' = "true"
                /\ available' = Vec(<<2, 3, 0>>)
                /\ allocation'[1] = Vec(<<3, 0, 2>>) ]_vars

\* request(1, [1,0,2]) was granted on the textbook state
C10_Witness ==
    /\ Committed("request") /\ arg_pid = 1 /\ arg_vec = Vec(<<1, 0, 2>>)
    /\ available = Vec(<<2, 3, 0>>)
    /\ allocation = [ScenarioAllocation EXCEPT ![1] = Vec(<<3, 0, 2>>)]

\* the ledger the last call was made on
Before == BankerSystem(n, m, pre.available, max_need, pre.allocation)
RulesSteps == {"need", "available", "allocation", "safety"}

\* C11 (release rejection): a well-formed release exceeding Allocation[pid]
\* in some class returns false, raises nothing, and leaves Available and
\* Allocation as they were.
C11_ReleaseRejected ==
    [][ (WellFormedNext("release") /\ ~vec_le(arg_vec', allocation[arg_pid']))
            => /\ outcome' = "false"
               /\ available' = available
               /\ allocation' = allocation ]_vars

\* a release of more than the process holds was refused
C11_Witness ==
    /\ WellFormed("release") /\ outcome = "false"
    /\ \E j \in Classes : arg_vec[j] > allocation[arg_pid][j]

\* C12 (malformed input): request or release with pid outside 0..n-1 or a
\* vector whose length is not m raises, before any need / availability /
\* allocation / safety rule is evaluated, and leaves Available and
\* Allocation unchanged.
C12_MalformedRaises ==
    [][ (op' \in {"request", "release"}
            /\ (arg_pid' \notin Procs \/ VLen(arg_vec') # m))
            => /\ outcome' = "raise"
               /\ \A k \in 1..Len(steps') : steps'[k] \notin RulesSteps
               /\ safety_calls' = 0
               /\ available' = available
               /\ allocation' = allocation ]_vars

\* a call with a vector of the wrong length raised past the pid check
C12_Witness ==
    /\ op \in {"request", "release"} /\ outcome = "raise"
    /\ arg_pid \in Procs /\ VLen(arg_vec) # m

\* C13 (release preserves safety): when a completion order of all processes
\* exists before a release that commits, one exists after it, although
\* release runs no safety check.
C13_ReleaseKeepsSafe ==
    [][ (CommittedNext("release") /\ ExistsSafeOrder(Self))
            => (ExistsSafeOrder(SelfNext) /\ safety_calls' = 0) ]_vars

\* a non-zero release was committed on a safe state
C13_Witness ==
    /\ Committed("release") /\ NonZero(arg_vec)
    /\ ExistsSafeOrder(Before) /\ ExistsSafeOrder(Self)

\* C14 (Need monotonicity): a committed release(pid, rel) leaves Need[pid]
\* component-wise >= its value before, a committed request(pid, req)
\* component-wise <=, and both leave Need[i] of every other process
\* unchanged.
C14_NeedMonotone ==
    [][ LET old == need(Self)
            new == need(SelfNext)
        IN  /\ CommittedNext("release") => vec_le(old[arg_pid'], new[arg_pid'])
            /\ CommittedNext("request") => vec_le(new[arg_pid'], old[arg_pid'])
            /\ (CommittedNext("release") \/ CommittedNext("request"))
                  => \A i \in Procs \ {arg_pid'} : new[i] = old[i] ]_vars

\* a committed non-zero release raised the Need of the process
C14_Witness ==
    /\ Committed("release") /\ NonZero(arg_vec)
    /\ need(Self)[arg_pid] # need(Before)[arg_pid]

\* C15 (committed release): a well-formed release within Allocation[pid]
\* returns true in safe and unsafe states alike, with no safety check, and
\* then Allocation[pid] is reduced by rel, Available increased by rel, every
\* other Allocation row and Max unchanged.
C15_ReleaseEffect ==
    [][ (WellFormedNext("release") /\ vec_le(arg_vec', allocation[arg_pid']))
            => /\ outcome' = "true"
               /\ safety_calls' = 0
               /\ allocation'[arg_pid'] = vec_sub(allocation[arg_pid'], arg_vec')
               /\ available' = vec_add(available, arg_vec')
               /\ \A i \in Procs \ {arg_pid'} : allocation'[i] = allocation[i]
               /\ DOMAIN allocation' = DOMAIN allocation
               /\ max_need' = max_need ]_vars

\* a non-zero release was committed on an unsafe state
C15_Witness ==
    /\ Committed("release") /\ NonZero(arg_vec)
    /\ ~ExistsSafeOrder(Before)

\* the safety algorithm with a scan that restarts from index 0 after each
\* finished process
RECURSIVE RestartWhile(_, _, _, _, _)
RestartWhile(self, nd, work, finish, seq) ==
    LET r == ScanFrom_Restart(self, nd, 0, work, finish, seq, FALSE)
    IN  IF r.changed
        THEN RestartWhile(self, nd, r.work, r.finish, r.seq)
        ELSE r

RestartCheck(self) ==
    LET r == RestartWhile(self, need(self), self.available,
                          [i \in 0..(self.n - 1) |-> FALSE], <<>>)
    IN  [safe |-> \A i \in 0..(self.n - 1) : r.finish[i], seq |-> r.seq]

\* C16 (scan order does not change the verdict): the boolean safety_check
\* returns with its continuing scan equals the boolean of the scan that
\* restarts from index 0 after each finished process; only the sequences
\* may differ.
C16_SameVerdict ==
    op = "safety_check" => safety_out.safe = RestartCheck(Self).safe

\* the two scans returned different sequences
C16_Witness ==
    /\ op = "safety_check" /\ safety_out.safe
    /\ safety_out.seq # RestartCheck(Self).seq

\* the places of s where the next index is lower: a new pass began
Descents(s) == Cardinality({ k \in 1..(Len(s) - 1) : s[k + 1] < s[k] })

\* C17 (termination of the safety algorithm): the loop ends after the first
\* pass that finishes no process and no earlier (every pass but the last
\* finishes one, the last none), it makes at most n+1 passes, and no process
\* is appended twice.
C17_Passes ==
    op = "safety_check" =>
        LET s == safety_out.seq
        IN  /\ safety_out.passes >= 1
            /\ safety_out.passes <= n + 1
            /\ safety_out.passes <= Len(s) + 1
            /\ safety_out.passes = (IF s = <<>> THEN 1 ELSE Descents(s) + 2)
            /\ \A a, b \in 1..Len(s) : a # b => s[a] # s[b]
            /\ \A k \in 1..Len(s) : s[k] \in Procs
            /\ Eligible(Self, s, Len(s) + 1) = {}

\* the check needed n+1 passes: one process per pass, then a pass for none
C17_Witness ==
    op = "safety_check" /\ n >= 2 /\ safety_out.passes = n + 1

\* the first process of the sequence safety_check returns on ledger self
First(self) == safety_check(self).seq[1]

\* C18 (progress from safe states): in a safe state the request of the
\* whole remaining Need of the first process of safety_check's sequence is
\* granted, and every call leaves a safe state safe; so no state reached from
\* a safe one refuses the full-need request of every process.
C18_Progress ==
    [][ LET sc == safety_check(Self)
            p == sc.seq[1]
            nd == need(Self)[p]
        IN  sc.safe =>
              /\ request(Self, p, nd).outcome = "true"
              /\ (WellFormedNext("request") /\ arg_pid' = p /\ arg_vec' = nd)
                    => outcome' = "true"
              /\ SafeNext ]_vars

\* the first process of the sequence asked for its whole non-zero Need and
\* got it
C18_Witness ==
    /\ Committed("request") /\ NonZero(arg_vec)
    /\ safety_check(Before).safe
    /\ arg_pid = First(Before)
    /\ arg_vec = need(Before)[arg_pid]

\* C19 (no grant from an unsafe state): in an unsafe state every well-formed
\* request returns false, so that only a release changes Available or
\* Allocation there.
C19_UnsafeNoGrant ==
    [][ ~SafeNow =>
          /\ WellFormedNext("request") => outcome' = "false"
          /\ (available' # available \/ allocation' # allocation)
                => op' = "release" ]_vars

\* in an unsafe state a non-zero request within Need and Available was
\* refused by the safety check
C19_Witness ==
    /\ WellFormed("request") /\ outcome = "false" /\ NonZero(arg_vec)
    /\ safety_calls = 1
    /\ ~ExistsSafeOrder(Before)

SameArgs == arg_pid' = arg_pid /\ arg_vec' = arg_vec

\* C20 (round trip): release(pid, v) right after a granted request(pid, v)
\* commits and restores Available and Allocation to their values before the
\* request; request(pid, v) right after a release(pid, v) committed on a safe
\* state is granted and restores them to their values before the release.
C20_RoundTrip ==
    [][ /\ (Committed("request") /\ op' = "release" /\ SameArgs)
            => /\ outcome' = "true"
               /\ available' = pre.available
               /\ allocation' = pre.allocation
        /\ (Committed("release") /\ ExistsSafeOrder(Before)
               /\ op' = "request" /\ SameArgs)
            => /\ outcome' = "true"
               /\ available' = pre.available
               /\ allocation' = pre.allocation ]_vars

\* P1 gave back the [1,0,2] it had been granted on the textbook state
C20_Witness ==
    /\ Committed("release") /\ arg_pid = 1 /\ arg_vec = Vec(<<1, 0, 2>>)
    /\ Self = ScenarioA

====
